---- MODULE Spec2Model ----
(***************************************************************************)
(* kombu.transport.mongodb: the Channel of the MongoDB transport.          *)
(*                                                                         *)
(* The store (three collections of one MongoDB database) is shared by all  *)
(* channels.  The channels of the model live in one Python process, so     *)
(* they share the class attribute Channel._fanout_queues, while            *)
(* _queue_cursors and _queue_readcounts are made per instance in __init__. *)
(* A step of the model is one method, or one stretch of a method between   *)
(* two store round trips where the claims are about the gap (_purge:       *)
(* count, then removal; _open: collection_names, then create_collection).  *)
(***************************************************************************)
EXTENDS Integers, Sequences, FiniteSets, TLC

VARIABLES
    version,            \* mongoconn.server_info()['version'] as <<major, minor>>
    capped_queue_size,  \* transport_options['capped_queue_size'], in documents
    collection_names,   \* database.collection_names()
    indexes,            \* the ensure_index calls the store has executed
    messages,           \* collection 'messages': sequence of documents
    broadcast,          \* capped collection 'messages.broadcast'
    routing,            \* collection 'messages.routing': row -> number of copies
    lastId,             \* per collection, the last _id handed out (ObjectIds ascend)
    openCursors,        \* store side: the tailing cursors not yet closed
    _fanout_queues,     \* Channel._fanout_queues (class attribute): queue -> exchange
    _client,            \* self._client per channel
    _queue_cursors,     \* self._queue_cursors per channel: queue -> cursor
    _queue_readcounts,  \* self._queue_readcounts per channel: queue -> int
    closed,             \* per channel: close() has run
    in_request,         \* per channel: the connection holds a request context
    table,              \* self.state.exchanges[e]['table'] per channel
    pc,                 \* per channel: where a multi round trip method stands
    ret,                \* the outcome of the last completed method call
    enq,                \* history: per queue, the bodies _put has enqueued
    deq,                \* history: per queue, what the findandmodify path of
                        \* _get has returned, as <<_id, body, channel>>
    expect              \* history: per channel and newly bound fanout queue,
                        \* prior: the broadcasts its exchange held at the bind,
                        \* owed: the <<_id, body>> published since, not yet
                        \* delivered

vars == <<version, capped_queue_size, collection_names, indexes, messages,
          broadcast, routing, lastId, openCursors, _fanout_queues, _client,
          _queue_cursors, _queue_readcounts, closed, in_request, table, pc,
          ret, enq, deq, expect>>

(***************************************************************************)
(* Bounds and input sets.                                                  *)
(***************************************************************************)
MaxPut == 2

MaxPub == 2

Chans == {"c1", "c2"}

Queues == {"q1", "q2"}

Payloads == {"a", "b"}

FanoutExchanges == {"e1", "e2"}

Exchanges == FanoutExchanges \cup {"d"}

RoutingKeys == {"k"}

Patterns == {"p"}

Versions == {<<1, 2>>, <<1, 8>>, <<2, 0>>}

None == "None"

\* self.typeof(exchange).type
typeof(exchange) ==
    IF exchange \in FanoutExchanges THEN "fanout" ELSE "direct"

(***************************************************************************)
(* Python dicts as functions whose domain is the set of keys.              *)
(***************************************************************************)
DictSet(d, k, v) ==
    [x \in DOMAIN d \cup {k} |-> IF x = k THEN v ELSE d[x]]

DictPop(d, k) ==
    [x \in DOMAIN d \ {k} |-> d[x]]

EmptyDict == [x \in {} |-> 0]

(***************************************************************************)
(* anyjson: dumps wraps a message body into a JSON text, loads unwraps it. *)
(***************************************************************************)
dumps(message) == <<"json", message>>

loads(text) == text[2]

(***************************************************************************)
(* The store's primitives.                                                 *)
(***************************************************************************)
\* collection.find({'queue': queue}) in natural (insertion) order
Find(collection, queue) ==
    SelectSeq(collection, LAMBDA doc: doc.queue = queue)

\* cursor.count(): ignores skip and limit
Count(collection, queue) == Len(Find(collection, queue))

\* collection.insert(doc): the new document gets the next ObjectId
Insert(collection, id, queue, message) ==
    Append(collection,
           [id |-> id, queue |-> queue, payload |-> dumps(message)])

\* only the first matching document removed
RemoveOne(collection, queue) ==
    LET docs == Find(collection, queue) IN
    IF docs = << >> THEN collection
    ELSE SelectSeq(collection, LAMBDA doc: doc.id # docs[1].id)

\* collection.remove({'queue': queue})
Remove(collection, queue) ==
    SelectSeq(collection, LAMBDA doc: doc.queue # queue)

\* an insert into a capped collection evicts the oldest documents
Capped(collection, size) ==
    IF Len(collection) > size
    THEN SubSeq(collection, Len(collection) - size + 1, Len(collection))
    ELSE collection

\* only the major numbers compared
VersionLTMajor(v, w) == v[1] < w[1]

\* tuple(map(int, version.split('.')[:2])) < (1, 3)
VersionLT(v, w) == v[1] < w[1] \/ (v[1] = w[1] /\ v[2] < w[2])

MinVersion == <<1, 3>>

\* as of mongo 2.0 findandmodify returns a null value instead of failing
NullOnNoMatch(v) == ~VersionLT(v, <<2, 0>>)

Ids(collection) == {collection[i].id : i \in 1..Len(collection)}

\* the sort direction reversed: the matching document with the greatest _id
Newest(docs) ==
    CHOOSE doc \in {docs[i] : i \in 1..Len(docs)} :
        \A i \in 1..Len(docs) : doc.id >= docs[i].id

\* sort={'_id': pymongo.ASCENDING}: the matching document with the least _id
Oldest(docs) ==
    CHOOSE doc \in {docs[i] : i \in 1..Len(docs)} :
        \A i \in 1..Len(docs) : doc.id <= docs[i].id

NoDoc == [id |-> 0, queue |-> None, payload |-> dumps(None)]

\* findandmodify(query={'queue': queue}, sort=..., remove=True): the reply is
\* {'value': doc}, {'value': None}, or the failure 'No matching object found'
FindAndModify(queue) ==
    LET docs == Find(messages, queue) IN
    IF docs # << >>
    THEN [ok |-> TRUE, errmsg |-> "", found |-> TRUE, value |-> Oldest(docs)]
    ELSE IF NullOnNoMatch(version)
    THEN [ok |-> TRUE, errmsg |-> "", found |-> FALSE, value |-> NoDoc]
    ELSE [ok |-> FALSE, errmsg |-> "No matching object found",
          found |-> FALSE, value |-> NoDoc]

\* remove=True left out: the document stays in the collection
AfterFindOnly(queue) == messages

\* the collection once findandmodify has removed the document it returns
AfterFindAndModify(queue) ==
    LET reply == FindAndModify(queue) IN
    IF reply.found
    THEN SelectSeq(messages, LAMBDA doc: doc.id # reply.value.id)
    ELSE messages

(***************************************************************************)
(* Tailing cursors over the capped collection.  A cursor is the query      *)
(* bcast.find({'queue': exchange}, sort=$natural, tailable=True) and its   *)
(* place: the _id of the last document it has passed (0: none).  Documents *)
(* appended later come out of a later next().                              *)
(***************************************************************************)
\* self.bcast.find(query={'queue': exchange}, ...)
find(exchange) == [exchange |-> exchange, pos |-> 0]

\* cursor.skip(n): the place just behind the n-th matching document
skip(cursor, n) ==
    LET docs == Find(broadcast, cursor.exchange)
        k == IF n < Len(docs) THEN n ELSE Len(docs) IN
    [cursor EXCEPT !.pos = IF k = 0 THEN 0 ELSE docs[k].id]

\* cursor.rewind(): back to the unevaluated query
rewind(cursor) == [cursor EXCEPT !.pos = 0]

\* the documents next() has still to return
Unread(cursor) ==
    SelectSeq(broadcast,
              LAMBDA doc: doc.queue = cursor.exchange /\ doc.id > cursor.pos)

\* _ensure_cursor: self._queue_cursors afterwards (fanout: _fanout_queues)
EnsuredCursors(fanout, cursors, queue) ==
    IF queue \notin DOMAIN cursors
    THEN LET cursor == find(fanout[queue])
             count == Count(broadcast, cursor.exchange) IN
         DictSet(cursors, queue, skip(cursor, count))
    ELSE cursors

\* the readCount of a new cursor starts at 0
EnsuredReadcountsZero(fanout, cursors, readcounts, queue) ==
    IF queue \notin DOMAIN cursors
    THEN DictSet(readcounts, queue, 0)
    ELSE readcounts

\* _ensure_cursor: self._queue_readcounts afterwards
EnsuredReadcounts(fanout, cursors, readcounts, queue) ==
    IF queue \notin DOMAIN cursors
    THEN DictSet(readcounts, queue, Count(broadcast, fanout[queue]))
    ELSE readcounts

\* _ensure_cursor: the store's open cursors afterwards
EnsuredOpen(ch, queue) == openCursors \cup {<<ch, queue>>}

(***************************************************************************)
(* The routing collection and the outcome record.                          *)
(***************************************************************************)
Rows == [exchange : Exchanges, queue : Queues,
         routing_key : RoutingKeys, pattern : Patterns]

\* an insert in place of the upsert
InsertRow(rows, meta) == [rows EXCEPT ![meta] = @ + 1]

\* routing.update(meta, meta, upsert=True)
Upsert(rows, meta) ==
    IF rows[meta] > 0 THEN rows ELSE [rows EXCEPT ![meta] = 1]

\* routing.remove({'queue': queue})
RemoveRows(rows, queue) ==
    [r \in Rows |-> IF r.queue = queue THEN 0 ELSE rows[r]]

\* (r['routing_key'], r['pattern'], r['queue']) for r in brokerRoutes
\* the query without its exchange filter
BrokerRoutesOfAll(exchange) ==
    {<<r.routing_key, r.pattern, r.queue>> : r \in {x \in Rows : routing[x] > 0}}

BrokerRoutes(exchange) ==
    {<<r.routing_key, r.pattern, r.queue>> :
        r \in {x \in Rows : x.exchange = exchange /\ routing[x] > 0}}

Outcome(ch, op, queue, out) ==
    [ch |-> ch, op |-> op, queue |-> queue, out |-> out, msg |-> None,
     n |-> 0, doc |-> 0, removed |-> 0, existing |-> FALSE, rows |-> {}]

Idle == [at |-> "idle", queue |-> None, size |-> 0]

Ready(ch) == pc[ch].at = "idle" /\ _client[ch] # None /\ ~closed[ch]

(***************************************************************************)
(* Construction.                                                           *)
(***************************************************************************)
\* the store is fresh or was bootstrapped before by another process
InitWith(versions, capsize, stores) ==
    /\ version \in versions
    /\ capped_queue_size = capsize
    /\ collection_names \in stores
    /\ indexes = {}
    /\ messages = << >>
    /\ broadcast = << >>
    /\ routing = [r \in Rows |-> 0]
    /\ lastId = [c \in {"messages", "broadcast"} |-> 0]
    /\ openCursors = {}
    /\ _fanout_queues = EmptyDict
    /\ _client = [ch \in Chans |-> None]
    /\ _queue_cursors = [ch \in Chans |-> EmptyDict]
    /\ _queue_readcounts = [ch \in Chans |-> EmptyDict]
    /\ closed = [ch \in Chans |-> FALSE]
    /\ in_request = [ch \in Chans |-> FALSE]
    /\ table = [ch \in Chans |-> {}]
    /\ pc = [ch \in Chans |-> Idle]
    /\ ret = Outcome(None, "init", None, "ok")
    /\ enq = [q \in Queues |-> << >>]
    /\ deq = [q \in Queues |-> << >>]
    /\ expect = [ch \in Chans |-> EmptyDict]

(***************************************************************************)
(* client / _open: the first use of the store by a channel.                *)
(***************************************************************************)
\* mongoconn.server_info(): the version gate, then the first ensure_index
\* and the look at collection_names()
_open(ch) ==
    /\ pc[ch].at = "idle" /\ _client[ch] = None /\ ~closed[ch]
    /\ IF VersionLT(version, MinVersion)
       THEN /\ ret' = Outcome(ch, "_open", None, "NotImplementedError")
            /\ UNCHANGED <<indexes, pc>>
       ELSE /\ indexes' = indexes \cup {"messages"}
            /\ pc' = [pc EXCEPT ![ch] =
                        [Idle EXCEPT !.at =
                            IF "messages.broadcast" \notin collection_names
                            THEN "create" ELSE "finish"]]
            /\ UNCHANGED ret
    /\ UNCHANGED <<version, capped_queue_size, collection_names, messages,
                   broadcast, routing, lastId, openCursors, _fanout_queues,
                   _client, _queue_cursors, _queue_readcounts, closed,
                   in_request, table, enq, deq, expect>>

\* database.create_collection('messages.broadcast', ...) and what follows it
_open_create(ch) ==
    /\ pc[ch].at = "create"
    /\ pc' = [pc EXCEPT ![ch] = Idle]
    /\ IF "messages.broadcast" \in collection_names
       THEN /\ ret' = Outcome(ch, "_open", None, "CollectionInvalid")
            /\ UNCHANGED <<collection_names, indexes, _client, in_request>>
       ELSE /\ collection_names' = collection_names \cup {"messages.broadcast"}
            /\ indexes' = indexes \cup {"messages.broadcast", "messages.routing"}
            /\ _client' = [_client EXCEPT ![ch] = "database"]
            /\ in_request' = [in_request EXCEPT ![ch] = TRUE]
            /\ ret' = Outcome(ch, "_open", None, "ok")
    /\ UNCHANGED <<version, capped_queue_size, messages, broadcast, routing,
                   lastId, openCursors, _fanout_queues, _queue_cursors,
                   _queue_readcounts, closed, table, enq, deq, expect>>

\* the collection was there: the two ensure_index calls and the return
_open_finish(ch) ==
    /\ pc[ch].at = "finish"
    /\ pc' = [pc EXCEPT ![ch] = Idle]
    /\ indexes' = indexes \cup {"messages.broadcast", "messages.routing"}
    /\ _client' = [_client EXCEPT ![ch] = "database"]
    /\ in_request' = [in_request EXCEPT ![ch] = TRUE]
    /\ ret' = Outcome(ch, "_open", None, "ok")
    /\ UNCHANGED <<version, capped_queue_size, collection_names, messages,
                   broadcast, routing, lastId, openCursors, _fanout_queues,
                   _queue_cursors, _queue_readcounts, closed, table, enq, deq,
                   expect>>

(***************************************************************************)
(* Point-to-point and fanout operations.                                   *)
(***************************************************************************)
\* the test of the failure text left out: every failure is raised again
GetResultRaising(reply) ==
    IF ~reply.ok THEN "OperationFailure"
    ELSE IF reply.value = NoDoc THEN "Empty" ELSE "ok"

\* the except clauses and the null test of _get, on the findandmodify reply
GetResult(reply) ==
    IF ~reply.ok
    THEN IF reply.errmsg = "No matching object found"
         THEN "Empty" ELSE "OperationFailure"
    ELSE IF reply.value = NoDoc THEN "Empty" ELSE "ok"

\* one cursor per exchange: every cursor on the exchange moves
AdvancedAll(cursors, queue, doc) ==
    [q \in DOMAIN cursors |->
        IF cursors[q].exchange = cursors[queue].exchange
        THEN [cursors[q] EXCEPT !.pos = doc.id] ELSE cursors[q]]

\* next(self._queue_cursors[queue]): the cursor moves behind the document
Advanced(cursors, queue, doc) ==
    [cursors EXCEPT ![queue].pos = doc.id]

\* history: a delivery to a newly bound queue takes the oldest body it is owed
Delivered(owed, ch, queue) ==
    IF queue \in DOMAIN owed[ch] /\ owed[ch][queue].owed # << >>
    THEN [owed EXCEPT ![ch][queue].owed = Tail(@)]
    ELSE owed

_get(ch, queue) ==
    /\ Ready(ch)
    /\ IF queue \in DOMAIN _fanout_queues
       THEN LET cursors == EnsuredCursors(_fanout_queues, _queue_cursors[ch], queue)
                counts == EnsuredReadcounts(_fanout_queues, _queue_cursors[ch],
                                            _queue_readcounts[ch], queue)
                unread == Unread(cursors[queue]) IN
            /\ openCursors' = EnsuredOpen(ch, queue)
            /\ IF unread # << >>
               THEN /\ _queue_cursors' = [_queue_cursors EXCEPT ![ch] =
                          Advanced(cursors, queue, Head(unread))]
                    /\ _queue_readcounts' = [_queue_readcounts EXCEPT ![ch] =
                          [counts EXCEPT ![queue] = @ + 1]]
                    /\ ret' = [Outcome(ch, "_get", queue, "ok") EXCEPT
                                  !.msg = loads(Head(unread).payload),
                                  !.doc = Head(unread).id]
                    /\ expect' = Delivered(expect, ch, queue)
               ELSE /\ _queue_cursors' = [_queue_cursors EXCEPT ![ch] = cursors]
                    /\ _queue_readcounts' =
                          [_queue_readcounts EXCEPT ![ch] = counts]
                    /\ ret' = Outcome(ch, "_get", queue, "Empty")
                    /\ UNCHANGED expect
            /\ UNCHANGED <<messages, deq>>
       ELSE LET reply == FindAndModify(queue)
                out == GetResult(reply) IN
            /\ messages' = AfterFindAndModify(queue)
            /\ IF out = "ok"
               THEN /\ ret' = [Outcome(ch, "_get", queue, "ok") EXCEPT
                                  !.msg = loads(reply.value.payload),
                                  !.doc = reply.value.id]
                    /\ deq' = [deq EXCEPT ![queue] =
                          Append(@, <<reply.value.id,
                                      loads(reply.value.payload), ch>>)]
               ELSE /\ ret' = Outcome(ch, "_get", queue, out)
                    /\ UNCHANGED deq
            /\ UNCHANGED <<openCursors, _queue_cursors, _queue_readcounts,
                           expect>>
    /\ UNCHANGED <<version, capped_queue_size, collection_names, indexes,
                   broadcast, routing, lastId, _fanout_queues, _client, closed,
                   in_request, table, pc, enq>>

\* the queue filter of the count left out
SizeOfAll(cursors, counts, queue) ==
    IF queue \in DOMAIN _fanout_queues
    THEN Len(broadcast) - counts[queue]
    ELSE Len(messages)

\* the value _size returns, with the cursor state _ensure_cursor leaves
SizeOf(cursors, counts, queue) ==
    IF queue \in DOMAIN _fanout_queues
    THEN Count(broadcast, cursors[queue].exchange) - counts[queue]
    ELSE Count(messages, queue)

_size(ch, queue) ==
    /\ Ready(ch)
    /\ LET fan == queue \in DOMAIN _fanout_queues
           cursors == IF fan
                      THEN EnsuredCursors(_fanout_queues, _queue_cursors[ch], queue)
                      ELSE _queue_cursors[ch]
           counts == IF fan
                     THEN EnsuredReadcounts(_fanout_queues, _queue_cursors[ch],
                                            _queue_readcounts[ch], queue)
                     ELSE _queue_readcounts[ch] IN
       /\ _queue_cursors' = [_queue_cursors EXCEPT ![ch] = cursors]
       /\ _queue_readcounts' = [_queue_readcounts EXCEPT ![ch] = counts]
       /\ openCursors' = IF fan THEN EnsuredOpen(ch, queue) ELSE openCursors
       /\ ret' = [Outcome(ch, "_size", queue, "ok") EXCEPT
                     !.n = SizeOf(cursors, counts, queue)]
    /\ UNCHANGED <<version, capped_queue_size, collection_names, indexes,
                   messages, broadcast, routing, lastId, _fanout_queues,
                   _client, closed, in_request, table, pc, enq, deq, expect>>

_put(ch, queue, message) ==
    /\ Ready(ch)
    /\ lastId["messages"] < MaxPut
    /\ lastId' = [lastId EXCEPT !["messages"] = @ + 1]
    /\ messages' = Insert(messages, lastId'["messages"], queue, message)
    /\ enq' = [enq EXCEPT ![queue] = Append(@, message)]
    /\ ret' = Outcome(ch, "_put", queue, "ok")
    /\ UNCHANGED <<version, capped_queue_size, collection_names, indexes,
                   broadcast, routing, openCursors, _fanout_queues, _client,
                   _queue_cursors, _queue_readcounts, closed, in_request,
                   table, pc, deq, expect>>

\* history: every newly bound queue on the exchange is owed the body
Published(owed, exchange, id, message) ==
    [ch \in Chans |->
        [q \in DOMAIN owed[ch] |->
            IF _queue_cursors[ch][q].exchange = exchange
            THEN [owed[ch][q] EXCEPT !.owed = Append(@, <<id, message>>)]
            ELSE owed[ch][q]]]

_put_fanout(ch, exchange, message) ==
    /\ Ready(ch)
    /\ lastId["broadcast"] < MaxPub
    /\ lastId' = [lastId EXCEPT !["broadcast"] = @ + 1]
    /\ broadcast' = Capped(Insert(broadcast, lastId'["broadcast"], exchange,
                                  message), capped_queue_size)
    /\ expect' = Published(expect, exchange, lastId'["broadcast"], message)
    /\ ret' = Outcome(ch, "_put_fanout", exchange, "ok")
    /\ UNCHANGED <<version, capped_queue_size, collection_names, indexes,
                   messages, routing, openCursors, _fanout_queues, _client,
                   _queue_cursors, _queue_readcounts, closed, in_request,
                   table, pc, enq, deq>>

\* _purge, first round trip: size = self._size(queue)
_purge(ch, queue) ==
    /\ Ready(ch)
    /\ LET fan == queue \in DOMAIN _fanout_queues
           cursors == IF fan
                      THEN EnsuredCursors(_fanout_queues, _queue_cursors[ch], queue)
                      ELSE _queue_cursors[ch]
           counts == IF fan
                     THEN EnsuredReadcounts(_fanout_queues, _queue_cursors[ch],
                                            _queue_readcounts[ch], queue)
                     ELSE _queue_readcounts[ch] IN
       /\ _queue_cursors' = [_queue_cursors EXCEPT ![ch] = cursors]
       /\ _queue_readcounts' = [_queue_readcounts EXCEPT ![ch] = counts]
       /\ openCursors' = IF fan THEN EnsuredOpen(ch, queue) ELSE openCursors
       /\ pc' = [pc EXCEPT ![ch] = [at |-> "purge", queue |-> queue,
                                    size |-> SizeOf(cursors, counts, queue)]]
    /\ UNCHANGED <<version, capped_queue_size, collection_names, indexes,
                   messages, broadcast, routing, lastId, _fanout_queues,
                   _client, closed, in_request, table, ret, enq, deq, expect>>

\* history: a purge leaves nothing owed, and nothing enqueued but delivered
Forgotten(owed, ch, queue) ==
    IF queue \in DOMAIN owed[ch]
    THEN [owed EXCEPT ![ch][queue].owed = << >>] ELSE owed

Bodies(pairs) == [i \in 1..Len(pairs) |-> pairs[i][2]]

\* the fanout branch of _purge: cursor.rewind(); cursor.skip(cursor.count())
PurgedCursor(cursor) ==
    skip(rewind(cursor), Count(broadcast, cursor.exchange))

\* the fanout branch of _purge: self._queue_readcounts afterwards
PurgedReadcounts(counts, queue) == counts

\* _purge, second round trip: the repositioning or the removal, and the return
_purge_remove(ch) ==
    LET queue == pc[ch].queue IN
    /\ pc[ch].at = "purge"
    /\ pc' = [pc EXCEPT ![ch] = Idle]
    /\ IF queue \in DOMAIN _fanout_queues
       THEN /\ IF queue \in DOMAIN _queue_cursors[ch]
               THEN /\ _queue_cursors' = [_queue_cursors EXCEPT ![ch][queue] =
                                             PurgedCursor(@)]
                    /\ _queue_readcounts' = [_queue_readcounts EXCEPT ![ch] =
                                             PurgedReadcounts(@, queue)]
                    /\ expect' = Forgotten(expect, ch, queue)
                    /\ ret' = [Outcome(ch, "_purge", queue, "ok") EXCEPT
                                  !.n = pc[ch].size]
               ELSE /\ ret' = Outcome(ch, "_purge", queue, "KeyError")
                    /\ UNCHANGED <<_queue_cursors, _queue_readcounts, expect>>
            /\ UNCHANGED <<messages, enq>>
       ELSE /\ messages' = Remove(messages, queue)
            /\ enq' = [enq EXCEPT ![queue] = Bodies(deq[queue])]
            /\ ret' = [Outcome(ch, "_purge", queue, "ok") EXCEPT
                          !.n = pc[ch].size,
                          !.removed = Count(messages, queue)]
            /\ UNCHANGED <<_queue_cursors, _queue_readcounts, expect>>
    /\ UNCHANGED <<version, capped_queue_size, collection_names, indexes,
                   broadcast, routing, lastId, openCursors, _fanout_queues,
                   _client, closed, in_request, table, deq>>

\* super().close() marks the channel closed; then end_request()
close(ch) ==
    /\ pc[ch].at = "idle" /\ ~closed[ch]
    /\ closed' = [closed EXCEPT ![ch] = TRUE]
    /\ in_request' = [in_request EXCEPT ![ch] =
                         IF _client[ch] # None THEN FALSE ELSE @]
    /\ ret' = Outcome(ch, "close", None, "ok")
    /\ UNCHANGED <<version, capped_queue_size, collection_names, indexes,
                   messages, broadcast, routing, lastId, openCursors,
                   _fanout_queues, _client, _queue_cursors, _queue_readcounts,
                   table, pc, enq, deq, expect>>

(***************************************************************************)
(* The routing table.                                                      *)
(***************************************************************************)
\* frozenset(self.state.exchanges[exchange]['table'])
LocalRoutes(ch, exchange) ==
    {<<r.routing_key, r.pattern, r.queue>> :
        r \in {x \in table[ch] : x.exchange = exchange}}

get_table(ch, exchange) ==
    /\ Ready(ch)
    /\ ret' = [Outcome(ch, "get_table", exchange, "ok") EXCEPT
                  !.rows = LocalRoutes(ch, exchange) \cup BrokerRoutes(exchange)]
    /\ UNCHANGED <<version, capped_queue_size, collection_names, indexes,
                   messages, broadcast, routing, lastId, openCursors,
                   _fanout_queues, _client, _queue_cursors, _queue_readcounts,
                   closed, in_request, table, pc, enq, deq, expect>>

\* the framework's bind puts the binding into the channel's local table
binding_add(ch, exchange, routing_key, pattern, queue) ==
    /\ ~closed[ch]
    /\ pc[ch].at = "idle"
    /\ table' = [table EXCEPT ![ch] = @ \cup
                    {[exchange |-> exchange, queue |-> queue,
                      routing_key |-> routing_key, pattern |-> pattern]}]
    /\ ret' = Outcome(ch, "binding_add", queue, "ok")
    /\ UNCHANGED <<version, capped_queue_size, collection_names, indexes,
                   messages, broadcast, routing, lastId, openCursors,
                   _fanout_queues, _client, _queue_cursors, _queue_readcounts,
                   closed, in_request, pc, enq, deq, expect>>

\* history: the bind that creates the cursor starts what the queue is owed
Bound(owed, ch, exchange, queue) ==
    IF queue \notin DOMAIN _queue_cursors[ch]
    THEN [owed EXCEPT ![ch] =
             DictSet(@, queue, [prior |-> Count(broadcast, exchange),
                                owed |-> << >>])]
    ELSE owed

_queue_bind(ch, exchange, routing_key, pattern, queue) ==
    LET meta == [exchange |-> exchange, queue |-> queue,
                 routing_key |-> routing_key, pattern |-> pattern]
        fanout == DictSet(_fanout_queues, queue, exchange) IN
    /\ Ready(ch)
    /\ IF typeof(exchange) = "fanout"
       THEN /\ _fanout_queues' = fanout
            /\ _queue_cursors' = [_queue_cursors EXCEPT ![ch] =
                                     EnsuredCursors(fanout, @, queue)]
            /\ _queue_readcounts' = [_queue_readcounts EXCEPT ![ch] =
                                     EnsuredReadcounts(fanout, _queue_cursors[ch],
                                                       @, queue)]
            /\ openCursors' = EnsuredOpen(ch, queue)
            /\ expect' = Bound(expect, ch, exchange, queue)
       ELSE UNCHANGED <<_fanout_queues, _queue_cursors, _queue_readcounts,
                        openCursors, expect>>
    /\ routing' = Upsert(routing, meta)
    /\ ret' = [Outcome(ch, "_queue_bind", queue, "ok") EXCEPT
                  !.existing = routing[meta] > 0]
    /\ UNCHANGED <<version, capped_queue_size, collection_names, indexes,
                   messages, broadcast, lastId, _client, closed, in_request,
                   table, pc, enq, deq>>

\* history: a deleted queue is owed nothing any more, on any channel
Deleted(owed, queue) ==
    [ch \in Chans |-> DictPop(owed[ch], queue)]

\* super().queue_delete() is the framework's part: it changes nothing of the
\* store's routing rows or of the cursor state
queue_delete(ch, queue) ==
    /\ Ready(ch)
    /\ routing' = RemoveRows(routing, queue)
    /\ IF queue \in DOMAIN _fanout_queues
       THEN /\ _queue_cursors' = [_queue_cursors EXCEPT ![ch] = DictPop(@, queue)]
            /\ openCursors' = openCursors \ {<<ch, queue>>}
            /\ _fanout_queues' = DictPop(_fanout_queues, queue)
       ELSE UNCHANGED <<_queue_cursors, openCursors, _fanout_queues>>
    /\ expect' = Deleted(expect, queue)
    /\ ret' = Outcome(ch, "queue_delete", queue, "ok")
    /\ UNCHANGED <<version, capped_queue_size, collection_names, indexes,
                   messages, broadcast, lastId, _client, _queue_readcounts,
                   closed, in_request, table, pc, enq, deq>>

(***************************************************************************)
(* Specifications: the same operations under different workloads.          *)
(***************************************************************************)
\* capacity the bounded publishing never fills: nothing is evicted
NoEviction == MaxPub + 1

\* a store no channel has used yet
Fresh == {{}}

\* a store that may already hold the capped collection
FreshOrUsed == {{}, {"messages.broadcast"}}

Bootstrap(ch) ==
    \/ _open(ch)
    \/ _open_create(ch)
    \/ _open_finish(ch)

\* fanout traffic: two channels, queue q1 bound to e1, publishing to e1 and e2
Next ==
    \E ch \in Chans :
        \/ Bootstrap(ch)
        \/ \E exchange \in FanoutExchanges, message \in Payloads :
               _put_fanout(ch, exchange, message)
        \/ _queue_bind(ch, "e1", "k", "p", "q1")
        \/ _get(ch, "q1")
        \/ _size(ch, "q1")
        \/ _purge(ch, "q1")
        \/ _purge_remove(ch)
        \/ queue_delete(ch, "q1")

Init == InitWith({<<2, 0>>}, NoEviction, Fresh)

Spec == Init /\ [][Next]_vars

\* point-to-point traffic of two channels on two queues
NextP2P ==
    \E ch \in Chans :
        \/ Bootstrap(ch)
        \/ \E queue \in Queues, message \in Payloads : _put(ch, queue, message)
        \/ \E queue \in Queues : _get(ch, queue)
        \/ \E queue \in Queues : _size(ch, queue)
        \/ \E queue \in Queues : _purge(ch, queue)
        \/ _purge_remove(ch)

SpecP2P == Init /\ [][NextP2P]_vars

\* one channel with two fanout queues on one exchange, up to its close
NextQueues ==
    \/ Bootstrap("c1")
    \/ \E message \in Payloads : _put_fanout("c1", "e1", message)
    \/ \E queue \in Queues : _queue_bind("c1", "e1", "k", "p", queue)
    \/ \E queue \in Queues : _get("c1", queue)
    \/ \E queue \in Queues : _size("c1", queue)
    \/ \E queue \in Queues : _purge("c1", queue)
    \/ _purge_remove("c1")
    \/ \E queue \in Queues : queue_delete("c1", queue)
    \/ close("c1")

InitQueues == InitWith({<<2, 0>>}, NoEviction, FreshOrUsed)

SpecQueues == InitQueues /\ [][NextQueues]_vars

\* both kinds of dequeue on either store generation
NextEmpty ==
    \/ Bootstrap("c1")
    \/ \E message \in Payloads : _put("c1", "q1", message)
    \/ \E message \in Payloads : _put_fanout("c1", "e1", message)
    \/ _queue_bind("c1", "e1", "k", "p", "q2")
    \/ \E queue \in Queues : _get("c1", queue)
    \/ queue_delete("c1", "q2")

InitEmpty == InitWith(Versions, NoEviction, FreshOrUsed)

SpecEmpty == InitEmpty /\ [][NextEmpty]_vars

\* the routing table: bindings of two channels, cached and durable
NextRouting ==
    \E ch \in Chans :
        \/ Bootstrap(ch)
        \/ \E exchange \in {"e1", "d"}, queue \in Queues :
               _queue_bind(ch, exchange, "k", "p", queue)
        \/ binding_add(ch, "d", "k", "p", "q1")
        \/ \E exchange \in {"e1", "d"} : get_table(ch, exchange)
        \/ \E queue \in Queues : queue_delete(ch, queue)

SpecRouting == Init /\ [][NextRouting]_vars

\* fanout traffic without purges: two channels, queue q1 bound and bound
\* again to either exchange
NextUnread ==
    \E ch \in Chans :
        \/ Bootstrap(ch)
        \/ \E exchange \in FanoutExchanges : _put_fanout(ch, exchange, "a")
        \/ \E exchange \in FanoutExchanges :
               _queue_bind(ch, exchange, "k", "p", "q1")
        \/ _get(ch, "q1")
        \/ _size(ch, "q1")
        \/ queue_delete(ch, "q1")

SpecUnread == Init /\ [][NextUnread]_vars

\* a capped_queue_size that holds a single broadcast
OneMessage == 1

\* fanout traffic of one channel on a capped collection that evicts
NextCapped ==
    \/ Bootstrap("c1")
    \/ \E message \in Payloads : _put_fanout("c1", "e1", message)
    \/ _queue_bind("c1", "e1", "k", "p", "q1")
    \/ _get("c1", "q1")
    \/ _size("c1", "q1")
    \/ queue_delete("c1", "q1")

InitCapped == InitWith({<<2, 0>>}, OneMessage, FreshOrUsed)

SpecCapped == InitCapped /\ [][NextCapped]_vars

\* a queue that holds point-to-point messages and is then bound to a fanout
\* exchange, on two channels
NextMixed ==
    \E ch \in Chans :
        \/ Bootstrap(ch)
        \/ \E message \in Payloads : _put(ch, "q1", message)
        \/ _queue_bind(ch, "e1", "k", "p", "q1")
        \/ _get(ch, "q1")
        \/ _purge(ch, "q1")
        \/ _purge_remove(ch)
        \/ queue_delete(ch, "q1")

SpecMixed == Init /\ [][NextMixed]_vars

(***************************************************************************)
(* Properties.                                                             *)
(***************************************************************************)
PointToPoint(queue) == queue \notin DOMAIN _fanout_queues

\* the bodies still stored for the queue, in insertion order
Pending(queue) ==
    LET docs == Find(messages, queue) IN
    [i \in 1..Len(docs) |-> loads(docs[i].payload)]

\* C1: on a point-to-point queue every _get returns the next body in enqueue
\* order (the bodies returned so far, then the stored ones, are the bodies
\* enqueued), each once, and signals Empty exactly when all have been returned.
C1_FifoDequeue ==
    [][/\ \A q \in Queues : Bodies(deq'[q]) \o Pending(q)' = enq'[q]
       /\ \A ch \in Chans, q \in Queues :
            (PointToPoint(q) /\ _get(ch, q)) =>
                IF Len(deq[q]) = Len(enq[q])
                THEN ret'.out = "Empty" /\ deq'[q] = deq[q]
                ELSE /\ ret'.out = "ok"
                     /\ ret'.msg = enq[q][Len(deq[q]) + 1]
                     /\ Len(deq'[q]) = Len(deq[q]) + 1]_vars

\* two different bodies enqueued, returned in that order, then Empty
C1_Witness ==
    /\ ret.op = "_get" /\ ret.out = "Empty" /\ ret.queue = "q1"
    /\ Len(enq["q1"]) >= 2
    /\ enq["q1"][1] # enq["q1"][2]
    /\ Bodies(deq["q1"]) = enq["q1"]

\* C2: no stored message is returned by more than one _get, whichever channels
\* run them, and a message a _get has returned is no longer in the collection.
C2_AtMostOnce ==
    /\ \A q1 \in Queues, q2 \in Queues :
         \A i \in 1..Len(deq[q1]), j \in 1..Len(deq[q2]) :
            deq[q1][i][1] = deq[q2][j][1] => (q1 = q2 /\ i = j)
    /\ \A q \in Queues : \A i \in 1..Len(deq[q]) :
            deq[q][i][1] \notin Ids(messages)

\* both channels have dequeued from the same queue
C2_Witness ==
    /\ Len(deq["q1"]) >= 2
    /\ deq["q1"][1][3] # deq["q1"][2][3]

\* C6: on a point-to-point queue, a _size that is the next call after a _purge
\* of the queue has returned reports 0.
C6_SizeZeroAfterPurge ==
    [][\A ch \in Chans, q \in Queues :
          (/\ ret.op = "_purge" /\ ret.out = "ok" /\ ret.queue = q
           /\ PointToPoint(q)
           /\ _size(ch, q)) => ret'.n = 0]_vars

\* a purge that removed two messages has just returned
C6_Witness ==
    /\ ret.op = "_purge" /\ ret.out = "ok" /\ ret.removed >= 2
    /\ PointToPoint(ret.queue)

\* C7 as claimed: the count _purge returns on a point-to-point queue is the
\* number of messages its removal step removes, in every interleaving.
C7_CountIsRemoved ==
    [][\A ch \in Chans :
          (_purge_remove(ch) /\ PointToPoint(pc[ch].queue)) =>
              ret'.n = Len(messages) - Len(messages')]_vars

\* C7 amended: _purge returns the number of the queue's messages counted by its
\* first round trip; its second round trip removes exactly the queue's messages
\* present then; the two numbers agree whenever the queue holds as many
\* messages at the removal as at the count.
C7_CountThenRemove ==
    [][\A ch \in Chans :
          /\ \A q \in Queues :
                (PointToPoint(q) /\ _purge(ch, q)) =>
                    pc'[ch].size = Count(messages, q)
          /\ (_purge_remove(ch) /\ PointToPoint(pc[ch].queue)) =>
                /\ ret'.n = pc[ch].size
                /\ Count(messages', pc[ch].queue) = 0
                /\ Len(messages) - Len(messages') =
                       Count(messages, pc[ch].queue)
                /\ Count(messages, pc[ch].queue) = pc[ch].size =>
                       ret'.n = Len(messages) - Len(messages')]_vars

\* a purge whose count and removal were separated by another channel's _put
C7_Witness ==
    /\ ret.op = "_purge" /\ ret.out = "ok"
    /\ PointToPoint(ret.queue)
    /\ ret.n >= 1 /\ ret.removed > ret.n

\* the queue has no stored document, or its cursor has nothing left to return
NothingToGet(ch, queue) ==
    IF PointToPoint(queue)
    THEN Count(messages, queue) = 0
    ELSE Unread(EnsuredCursors(_fanout_queues, _queue_cursors[ch],
                               queue)[queue]) = << >>

\* C9: a _get that finds nothing ends in Empty, never in a store failure, on a
\* store that fails with 'No matching object found' and on one that answers
\* with a null value, and on a fanout queue whose cursor is exhausted.
C9_NothingIsEmpty ==
    [][\A ch \in Chans, q \in Queues :
          (_get(ch, q) /\ NothingToGet(ch, q)) => ret'.out = "Empty"]_vars

\* the older store generation has reported its failure and _get signalled Empty
C9_Witness ==
    /\ ~NullOnNoMatch(version)
    /\ ret.op = "_get" /\ ret.out = "Empty"
    /\ PointToPoint(ret.queue)

Meta(exchange, queue) ==
    [exchange |-> exchange, queue |-> queue,
     routing_key |-> "k", pattern |-> "p"]

\* C8: a _queue_bind leaves exactly one durable row for its tuple, also when
\* the tuple was bound before by this or another channel, and get_table of the
\* exchange has the tuple's entry (routing_key, pattern, queue).
C8_BindIdempotent ==
    [][/\ \A r \in Rows : routing'[r] <= 1
       /\ \A ch \in Chans, e \in Exchanges, q \in Queues :
            (ret'.op = "_queue_bind" /\ _queue_bind(ch, e, "k", "p", q)) =>
                /\ routing'[Meta(e, q)] = 1
                /\ <<"k", "p", q>> \in BrokerRoutes(e)'
       /\ \A ch \in Chans, e \in Exchanges :
            (ret'.op = "get_table" /\ get_table(ch, e)) =>
                \A r \in Rows :
                    (r.exchange = e /\ routing[r] >= 1) =>
                        <<r.routing_key, r.pattern, r.queue>> \in ret'.rows]_vars

\* the same tuple has been bound again and its row is still the only one
C8_Witness ==
    /\ ret.op = "_queue_bind" /\ ret.existing
    /\ \E e \in Exchanges : routing[Meta(e, ret.queue)] = 1

\* the fanout _get returns the oldest message published since the queue's
\* cursor was made and not yet returned to it
DeliversOwed(ch, q) ==
    IF expect[ch][q].owed = << >>
    THEN ret'.out = "Empty"
    ELSE /\ ret'.out = "ok"
         /\ ret'.doc = Head(expect[ch][q].owed)[1]
         /\ ret'.msg = Head(expect[ch][q].owed)[2]

\* C3 as claimed: a _queue_bind of q on a fanout exchange that holds N
\* broadcasts leaves the binding channel's cursor for q reading that exchange
\* from behind all N, so that no later _get(q) of the channel returns one of
\* them and the messages published afterwards are what it returns.
C3_BindSkipsHistory ==
    [][\A ch \in Chans, q \in Queues, e \in FanoutExchanges :
          (ret'.op = "_queue_bind" /\ _queue_bind(ch, e, "k", "p", q)) =>
              /\ _queue_cursors'[ch][q].exchange = e
              /\ Unread(_queue_cursors'[ch][q]) = << >>]_vars

\* C5 as claimed: on a fanout queue, a _size that is the channel's next call
\* after its _purge of the queue has returned reports 0.
C5_FanoutSizeZeroAfterPurge ==
    [][\A ch \in Chans, q \in Queues :
          (/\ ret.op = "_purge" /\ ret.out = "ok"
           /\ ret.ch = ch /\ ret.queue = q
           /\ ~PointToPoint(q)
           /\ _size(ch, q)) => ret'.n = 0]_vars

\* C4: a _get on one fanout queue leaves the cursor, the readCount and the
\* unread messages of every other queue as they were, and each newly bound
\* queue is delivered the messages owed to it, in order.
C4_IndependentCursors ==
    [][\A ch \in Chans, q \in Queues :
          (ret'.op = "_get" /\ ~PointToPoint(q) /\ _get(ch, q)) =>
              /\ broadcast' = broadcast
              /\ \A c2 \in Chans, q2 \in Queues :
                    (<<c2, q2>> # <<ch, q>> /\ q2 \in DOMAIN _queue_cursors[c2]) =>
                        /\ _queue_cursors'[c2][q2] = _queue_cursors[c2][q2]
                        /\ _queue_readcounts'[c2][q2] = _queue_readcounts[c2][q2]
                        /\ Unread(_queue_cursors'[c2][q2]) =
                               Unread(_queue_cursors[c2][q2])
              /\ q \in DOMAIN expect[ch] => DeliversOwed(ch, q)]_vars

\* q1 has received a message that q2, bound to the same exchange, is still owed
C4_Witness ==
    /\ ret.op = "_get" /\ ret.out = "ok" /\ ret.queue = "q1"
    /\ "q2" \in DOMAIN expect[ret.ch]
    /\ _queue_cursors[ret.ch]["q2"].exchange = _queue_cursors[ret.ch]["q1"].exchange
    /\ expect[ret.ch]["q2"].owed # << >>
    /\ Head(expect[ret.ch]["q2"].owed)[1] = ret.doc

\* C10 as claimed: a closed channel has no tailing cursor left open and holds
\* no cursor state.
C10_CloseClosesCursors ==
    \A ch \in Chans :
        closed[ch] =>
            /\ \A q \in Queues : <<ch, q>> \notin openCursors
            /\ DOMAIN _queue_cursors[ch] = {}

\* self._fanout_queues as channel ch reads it: no instance ever assigns the
\* attribute, so every instance reaches the one dict of the class
FanoutQueuesOf(ch) == _fanout_queues

\* C11 as claimed: a _queue_bind or a queue_delete on one channel changes
\* neither whether another channel treats the queue as fanout nor the other
\* channel's cursor state.
C11_RegistryPrivate ==
    [][\A a \in Chans, b \in Chans, q \in Queues :
          (/\ a # b
           /\ \/ \E e \in Exchanges : _queue_bind(a, e, "k", "p", q)
              \/ queue_delete(a, q)) =>
              /\ (q \in DOMAIN FanoutQueuesOf(b))' = (q \in DOMAIN FanoutQueuesOf(b))
              /\ _queue_cursors'[b] = _queue_cursors[b]
              /\ _queue_readcounts'[b] = _queue_readcounts[b]]_vars

\* the store reports a version older than 1.3
TooOld == version[1] < 1 \/ (version[1] = 1 /\ version[2] < 3)

\* C12: a bootstrap against a store older than 1.3 ends in the compatibility
\* error with no index ensured and no collection created, takes no further
\* step, and leaves the channel without a client handle.
C12_GateBeforeCreation ==
    [][\A ch \in Chans :
          (TooOld /\ _open(ch)) =>
              /\ ret'.op = "_open" /\ ret'.out = "NotImplementedError"
              /\ indexes' = indexes
              /\ collection_names' = collection_names
              /\ pc'[ch] = Idle
              /\ _client'[ch] = None]_vars

\* a bootstrap has failed at the gate on a store nothing was created in
C12_Witness ==
    /\ TooOld
    /\ ret.op = "_open" /\ ret.out = "NotImplementedError"
    /\ indexes = {} /\ collection_names = {}
    /\ _client[ret.ch] = None

\* C13 as claimed: on a store of a supported version every bootstrap succeeds,
\* however the bootstraps of two channels interleave, and none finds the
\* capped collection made under it.
C13_BootstrapsSucceed ==
    (~TooOld /\ ret.op = "_open") => ret.out = "ok"

\* C14 as claimed: a queue_delete leaves no routing row of the queue in the
\* store and, on the deleting channel, no cursor (it is closed and removed),
\* no readCount and no fanout registration of the queue.
C14_DeleteDiscardsState ==
    [][\A ch \in Chans, q \in Queues :
          queue_delete(ch, q) =>
              /\ \A r \in Rows : r.queue = q => routing'[r] = 0
              /\ q \notin DOMAIN _queue_cursors'[ch]
              /\ <<ch, q>> \notin openCursors'
              /\ q \notin DOMAIN _queue_readcounts'[ch]
              /\ q \notin DOMAIN FanoutQueuesOf(ch)']_vars

\* C15: with no purge and no eviction, the _size of a fanout queue is the
\* number of messages the channel's further _get calls on it return before
\* they signal Empty, whatever was published and read since the bind.
C15_SizeIsUnread ==
    [][\A ch \in Chans, q \in Queues :
          (/\ ret'.op = "_size"
           /\ q \in DOMAIN FanoutQueuesOf(ch)
           /\ _size(ch, q)) =>
              ret'.n = Len(Unread(_queue_cursors'[ch][q]))]_vars

\* bound behind one broadcast, with one later message still unread
C15_Witness ==
    /\ ret.op = "_size" /\ ret.n = 1 /\ ret.queue \in DOMAIN _fanout_queues
    /\ ret.queue \in DOMAIN expect[ret.ch]
    /\ expect[ret.ch][ret.queue].prior >= 1
    /\ expect[ret.ch][ret.queue].owed # << >>

\* the entries of the durable rows the store holds for the exchange
Durable(e) ==
    {<<"k", "p", q>> : q \in {x \in Queues : routing[Meta(e, x)] >= 1}}

\* C16: get_table returns exactly the channel's local bindings for the
\* exchange together with the durable rows the store holds for it at the
\* call; so it has the row another channel has just written, and a queue
\* another channel has just deleted comes only from the local bindings.
C16_ReadThrough ==
    [][\A ch \in Chans, e \in Exchanges :
          (ret'.op = "get_table" /\ get_table(ch, e)) =>
              /\ ret'.rows = LocalRoutes(ch, e) \cup Durable(e)
              /\ (/\ ret.op = "_queue_bind" /\ ret.ch # ch
                  /\ routing[Meta(e, ret.queue)] >= 1) =>
                     <<"k", "p", ret.queue>> \in ret'.rows
              /\ (ret.op = "queue_delete" /\ ret.ch # ch) =>
                     \A x \in ret'.rows :
                        x[3] = ret.queue => x \in LocalRoutes(ch, e)]_vars

\* a table with an entry only the store holds and an entry only the channel
\* holds
C16_Witness ==
    /\ ret.op = "get_table"
    /\ \E x \in ret.rows : x \notin LocalRoutes(ret.ch, ret.queue)
    /\ \E x \in ret.rows : x \notin Durable(ret.queue)

\* C17 as claimed: a _get that signals Empty leaves the readCount and the
\* cursor the channel holds for the queue as they were, and leaves both
\* collections as they were.
C17_EmptyChangesNothing ==
    [][\A ch \in Chans, q \in Queues :
          (_get(ch, q) /\ ret'.out = "Empty") =>
              /\ messages' = messages
              /\ broadcast' = broadcast
              /\ q \in DOMAIN _queue_readcounts[ch] =>
                    /\ q \in DOMAIN _queue_readcounts'[ch]
                    /\ _queue_readcounts'[ch][q] = _queue_readcounts[ch][q]
              /\ q \in DOMAIN _queue_cursors[ch] =>
                    /\ q \in DOMAIN _queue_cursors'[ch]
                    /\ _queue_cursors'[ch][q] = _queue_cursors[ch][q]]_vars

\* C18 as claimed: every cursor a channel holds for a registered fanout queue
\* filters on the exchange the queue is registered for.
C18_CursorFollowsRegistry ==
    \A ch \in Chans, q \in Queues :
        (q \in DOMAIN _queue_cursors[ch] /\ q \in DOMAIN FanoutQueuesOf(ch)) =>
            _queue_cursors[ch][q].exchange = FanoutQueuesOf(ch)[q]

\* C19 as claimed: the _size of a fanout queue is never negative, also once
\* the capped collection has evicted messages the queue had read or skipped.
C19_SizeNotNegative ==
    (ret.op = "_size" /\ ret.queue \in DOMAIN _fanout_queues) => ret.n >= 0

\* C20 as claimed: a message _put has stored leaves the messages collection
\* only by a _get that returns it or by a _purge of its queue, and while the
\* queue has a stored message a _get of the queue on any channel returns the
\* oldest one, also after the queue has been bound to a fanout exchange.
C20_NotStranded ==
    [][/\ \A i \in 1..Len(messages) :
            messages[i].id \notin Ids(messages') =>
                \/ ret'.op = "_get" /\ ret'.out = "ok"
                     /\ ret'.queue = messages[i].queue
                     /\ ret'.doc = messages[i].id
                \/ ret'.op = "_purge" /\ ret'.queue = messages[i].queue
       /\ \A ch \in Chans, q \in Queues :
            (_get(ch, q) /\ Count(messages, q) > 0) =>
                /\ ret'.out = "ok"
                /\ ret'.doc = Find(messages, q)[1].id
                /\ ret'.doc \notin Ids(messages')]_vars

====
